---- MODULE Spec2Model ----
(***************************************************************************)
(* A model of the decklist / collection-list renderer of obsidian-mtg      *)
(* (src/src/renderer.ts): the line parser parseLines, the collector         *)
(* builders, renderCollection's resolution of card numbers and the          *)
(* aggregation done by render (sections, totals, missing cards, buylist).   *)
(*                                                                         *)
(* A JavaScript string is a sequence of one-character strings, so that the  *)
(* regular expressions, split, trim and parseInt of the source are          *)
(* computed character by character.                                         *)
(***************************************************************************)
EXTENDS Integers, Sequences, FiniteSets, TLC

VARIABLES
    rawLines,       \* source.split("\n"): the raw lines handed to parseLines
    cardCounts,     \* the ownership ledger (card id -> owned count)
    isCollection,   \* renderCollection (TRUE) or renderDecklist (FALSE)
    settings,       \* the settings render reads: showBuylist, hidePrices
    workspace,      \* whether a workspace object was supplied to the renderer
    pc,             \* position of the renderer: start, parsed, batching, requested,
                    \* rendered, raised
    parsedLines,    \* the Line records (renderCollection mutates them in place)
    fetched,        \* what the dataFetcher returned (or {} when it threw)
    cardDataByCardId, \* card id -> card data, as handed to render
    out,            \* what render has computed when it returns or raises
    query,          \* what the dataFetcher is called with: the distinct card
                    \* names (decklist) or the card numbers by set (collection)
    scryfall        \* the arrays and requests of fetchCardDataFromScryfall

vars == <<rawLines, cardCounts, isCollection, settings, workspace, pc,
          parsedLines, fetched, cardDataByCardId, out, query, scryfall>>

-----------------------------------------------------------------------------
(* Characters and character classes of the regular expressions *)

DigitSeq == <<"0", "1", "2", "3", "4", "5", "6", "7", "8", "9">>

Digits == {DigitSeq[k] : k \in 1..10}

LowerSeq == <<"a", "b", "c", "d", "e", "f", "g", "h", "i", "j", "k", "l", "m",
              "n", "o", "p", "q", "r", "s", "t", "u", "v", "w", "x", "y", "z">>

UpperSeq == <<"A", "B", "C", "D", "E", "F", "G", "H", "I", "J", "K", "L", "M",
              "N", "O", "P", "Q", "R", "S", "T", "U", "V", "W", "X", "Y", "Z">>

Letters == {LowerSeq[k] : k \in 1..26} \cup {UpperSeq[k] : k \in 1..26}

\* \s
Whitespace == {" ", "\t"}

\* [A-Za-z0-9]
AlNum == Letters \cup Digits

\* [\w| ,']
NameClass == AlNum \cup {"_", "|", " ", ",", "'"}

COMMENT_DELIMITER == "#"

\* "Deck:"
DEFAULT_SECTION_NAME == <<"D", "e", "c", "k", ":">>

\* "Collection: "
COLLECTION_SECTION_NAME == <<"C", "o", "l", "l", "e", "c", "t", "i", "o", "n", ":", " ">>

\* "invalid line: "
INVALID_LINE == <<"i", "n", "v", "a", "l", "i", "d", " ", "l", "i", "n", "e", ":", " ">>

\* "Unable to parse card name from: "
UNABLE_TO_PARSE ==
    <<"U", "n", "a", "b", "l", "e", " ", "t", "o", " ", "p", "a", "r", "s", "e", " ", "c", "a", "r", "d", " ", "n", "a", "m", "e">>
    \o <<" ", "f", "r", "o", "m", ":", " ">>

\* "Card not found ("
CARD_NOT_FOUND == <<"C", "a", "r", "d", " ", "n", "o", "t", " ", "f", "o", "u", "n", "d", " ", "(">>

-----------------------------------------------------------------------------
(* String primitives of JavaScript used by the source *)

\* every character of s[a..b] is in class S
AllIn(s, a, b, S) == \A k \in a..b : s[k] \in S

\* String.prototype.trim
trim(s) ==
    IF AllIn(s, 1, Len(s), Whitespace) THEN <<>>
    ELSE LET a == CHOOSE k \in 1..Len(s) :
                    s[k] \notin Whitespace /\ AllIn(s, 1, k - 1, Whitespace)
             b == CHOOSE k \in 1..Len(s) :
                    s[k] \notin Whitespace /\ AllIn(s, k + 1, Len(s), Whitespace)
         IN SubSeq(s, a, b)

\* String.prototype.toLowerCase on one character
toLowerChar(c) ==
    IF \E k \in 1..26 : UpperSeq[k] = c
    THEN LowerSeq[CHOOSE k \in 1..26 : UpperSeq[k] = c]
    ELSE c

toLowerCase(s) == [k \in 1..Len(s) |-> toLowerChar(s[k])]

\* String.prototype.split with a one-character separator
RECURSIVE split(_, _)
split(s, d) ==
    IF \A k \in 1..Len(s) : s[k] # d THEN <<s>>
    ELSE LET i == CHOOSE k \in 1..Len(s) : s[k] = d /\ \A m \in 1..(k - 1) : s[m] # d
         IN <<SubSeq(s, 1, i - 1)>> \o split(SubSeq(s, i + 1, Len(s)), d)

\* parseInt on a non-empty run of decimal digits
RECURSIVE parseInt(_)
parseInt(ds) ==
    IF Len(ds) = 0 THEN 0
    ELSE 10 * parseInt(SubSeq(ds, 1, Len(ds) - 1))
         + ((CHOOSE k \in 1..10 : DigitSeq[k] = ds[Len(ds)]) - 1)

\* the last index of the maximal run of digits that starts at i
RunEnd(s, i) == CHOOSE j \in i..Len(s) :
                    AllIn(s, i, j, Digits) /\ (j = Len(s) \/ s[j + 1] \notin Digits)

\* an optional value: null is <<>>, the number n is <<n>>
Null == <<>>

Some(n) == <<n>>

-----------------------------------------------------------------------------
(* collection.ts is not part of the sources: nameToId is the Card Identity  *)
(* Normalizer of the specification (case and surrounding-whitespace         *)
(* insensitive).                                                            *)

nameToId(name) == toLowerCase(trim(name))

-----------------------------------------------------------------------------
(* The regular expressions of renderer.ts *)

\* blankLineRE = /^\s+$/
blankLineRE(line) == Len(line) > 0 /\ AllIn(line, 1, Len(line), Whitespace)

\* headingMatchRE = new RegExp("^[^[0-9|" + COMMENT_DELIMITER + "]"): the
\* character class excludes '[', the digits, '|' and '#'
headingMatchRE(line) ==
    Len(line) > 0 /\ line[1] \notin (Digits \cup {"[", "|", COMMENT_DELIMITER})

\* numberRE = /\d+$/ (not anchored at the start)
numberRE(line) == Len(line) > 0 /\ line[Len(line)] \in Digits

\* setCodesRE = /(\([A-Za-z0-9]{3}\)\s\d+)/ matches at position p
setCodesAt(s, p) ==
    /\ p >= 1
    /\ p + 6 <= Len(s)
    /\ s[p] = "("
    /\ AllIn(s, p + 1, p + 3, AlNum)
    /\ s[p + 4] = ")"
    /\ s[p + 5] \in Whitespace
    /\ s[p + 6] \in Digits

\* lineWithSetCodes = /(\d+)\s+([\w| ,']*)\s+(\([A-Za-z0-9]{3}\)\s\d+)/
lineWithSetCodes(s) ==
    \E p \in 1..Len(s) :
        /\ setCodesAt(s, p)
        /\ \E a \in 1..p, b \in 1..p, c \in 1..p :
            /\ a < b /\ b <= c /\ c < p - 1
            /\ s[a] \in Digits
            /\ AllIn(s, a + 1, b, Whitespace)
            /\ AllIn(s, b + 1, c, NameClass)
            /\ AllIn(s, c + 1, p - 1, Whitespace)

\* s.replace(setCodesRE, ""): the leftmost match is removed
replaceSetCodes(s) ==
    IF \A p \in 1..Len(s) : ~setCodesAt(s, p) THEN s
    ELSE LET p == CHOOSE q \in 1..Len(s) :
                    setCodesAt(s, q) /\ \A r \in 1..(q - 1) : ~setCodesAt(s, r)
             e == RunEnd(s, p + 6)
         IN SubSeq(s, 1, p - 1) \o SubSeq(s, e + 1, Len(s))

\* lineMatchRE = /(\d+)\s(.*)/ matches with its digits starting at i
lineMatchAt(s, i) ==
    /\ s[i] \in Digits
    /\ RunEnd(s, i) < Len(s)
    /\ s[RunEnd(s, i) + 1] \in Whitespace

\* s.match(lineMatchRE): Null, or the groups of the leftmost match
lineMatchRE(s) ==
    IF \A i \in 1..Len(s) : ~lineMatchAt(s, i) THEN Null
    ELSE LET i == CHOOSE k \in 1..Len(s) :
                    lineMatchAt(s, k) /\ \A m \in 1..(k - 1) : ~lineMatchAt(s, m)
             j == RunEnd(s, i)
         IN Some([count |-> SubSeq(s, i, j), rest |-> SubSeq(s, j + 2, Len(s))])

-----------------------------------------------------------------------------
(* parseLines *)

\* interface Line. A field the source leaves undefined holds the value the
\* source reads for it (0, the empty string, no entries); globalCount is
\* Null or Some(n). A card-by-number line is a "card" line with a cardNumber.
Line(type) ==
    [lineType |-> type, cardCount |-> 0, globalCount |-> Null, cardName |-> <<>>,
     cardNumber |-> <<>>, cardSetCode |-> <<>>, comments |-> <<>>,
     errors |-> <<>>, text |-> <<>>]

\* the forEach of extractSetCode: the last well-formed set=<value> wins
RECURSIVE extractSetCodeFrom(_, _)
extractSetCodeFrom(parts, setCode) ==
    IF parts = <<>> THEN setCode
    ELSE LET settingParts == split(Head(parts), "=")
             next == IF /\ Len(settingParts) = 2
                        /\ trim(settingParts[1]) = <<"s", "e", "t">>
                     THEN trim(settingParts[2])
                     ELSE setCode
         IN extractSetCodeFrom(Tail(parts), next)

extractSetCode(value) ==
    extractSetCodeFrom(split(SubSeq(value, 2, Len(value)), ","), <<>>)

\* a faulty update: the carried set code is overwritten by an empty value too
updateSetCodeAlways(currentSetCode, setCode) == setCode

\* if (setCode != "") currentSetCode = setCode
updateSetCode(currentSetCode, setCode) ==
    IF setCode # <<>> THEN setCode ELSE currentSetCode

\* line.startsWith(COMMENT_DELIMITER + " ")
startsWithComment(line) ==
    Len(line) >= 2 /\ line[1] = COMMENT_DELIMITER /\ line[2] = " "

\* a faulty lookup: an empty ledger is read like any other (owned 0)
lookupGlobalCountAlways(counts, cardId) ==
    Some(IF cardId \in DOMAIN counts THEN counts[cardId] ELSE 0)

\* globalCount of a card line: null when the ledger has no keys, else
\* cardCounts[cardId] || 0
lookupGlobalCount(counts, cardId) ==
    IF DOMAIN counts = {} THEN Null
    ELSE Some(IF cardId \in DOMAIN counts THEN counts[cardId] ELSE 0)

\* the text matched against lineMatchRE: the set-code annotation is removed
\* from a line that has none of the comment delimiter; with a delimiter the
\* text is the first fragment of the ORIGINAL line
lineWithoutComments(line) ==
    IF \E k \in 1..Len(line) : line[k] = COMMENT_DELIMITER
    THEN split(line, COMMENT_DELIMITER)[1]
    ELSE IF lineWithSetCodes(line) THEN trim(replaceSetCodes(line))
    ELSE line

\* the fragments after each comment delimiter
commentsOf(line) ==
    IF \E k \in 1..Len(line) : line[k] = COMMENT_DELIMITER
    THEN Tail(split(line, COMMENT_DELIMITER))
    ELSE <<>>

\* the card-entry step of the callback (from "let lineWithoutComments" on)
cardEntry(line, counts) ==
    LET lineParts == lineMatchRE(lineWithoutComments(line))
    IN IF lineParts = Null
       THEN [Line("error") EXCEPT !.errors = <<(INVALID_LINE \o line)>>]
       ELSE LET cardName == lineParts[1].rest
            IN [Line("card") EXCEPT
                   !.cardCount = parseInt(lineParts[1].count),
                   !.globalCount = lookupGlobalCount(counts, nameToId(cardName)),
                   !.cardName = cardName,
                   !.comments = commentsOf(line),
                   !.errors = IF Len(cardName) = 0
                              THEN <<(UNABLE_TO_PARSE \o line)>>
                              ELSE <<>>]

\* one call of the map callback: the record and the carried set code after it
parseLine(line, currentSetCode, counts) ==
    IF Len(line) = 0 \/ blankLineRE(line)
    THEN [line |-> Line("blank"), setCode |-> currentSetCode]
    ELSE IF headingMatchRE(line)
    THEN [line |-> [Line("section") EXCEPT !.text = line], setCode |-> currentSetCode]
    ELSE IF startsWithComment(line)
    THEN [line |-> [Line("comment") EXCEPT !.comments = <<line>>],
          setCode |-> updateSetCode(currentSetCode, extractSetCode(line))]
    ELSE IF numberRE(line)
    THEN [line |-> [Line("card") EXCEPT !.text = line,
                                        !.cardNumber = trim(line),
                                        !.cardSetCode = currentSetCode,
                                        !.cardCount = 1,
                                        !.globalCount = Null],
          setCode |-> currentSetCode]
    ELSE [line |-> cardEntry(line, counts), setCode |-> currentSetCode]

\* a faulty map: blank lines are dropped from the output
RECURSIVE parseLinesDroppingBlanks(_, _, _)
parseLinesDroppingBlanks(lines, currentSetCode, counts) ==
    IF lines = <<>> THEN <<>>
    ELSE LET r == parseLine(Head(lines), currentSetCode, counts)
             rest == parseLinesDroppingBlanks(Tail(lines), r.setCode, counts)
         IN IF r.line.lineType = "blank" THEN rest ELSE <<r.line>> \o rest

\* rawLines.map with the closure variable currentSetCode threaded through
RECURSIVE parseLinesFrom(_, _, _)
parseLinesFrom(lines, currentSetCode, counts) ==
    IF lines = <<>> THEN <<>>
    ELSE LET r == parseLine(Head(lines), currentSetCode, counts)
         IN <<r.line>> \o parseLinesFrom(Tail(lines), r.setCode, counts)

\* let currentSetCode = ""; return rawLines.map(...)
parseLines(lines, counts) == parseLinesFrom(lines, <<>>, counts)

\* the variants of the Line record
IsCard(l) == l.lineType = "card" /\ l.cardNumber = <<>>

IsCardByNumber(l) == l.lineType = "card" /\ l.cardNumber # <<>>
-----------------------------------------------------------------------------
(* Finite maps (JavaScript objects used as records keyed by strings) *)

EmptyMap == [k \in {} |-> 0]

Get(f, k, default) == IF k \in DOMAIN f THEN f[k] ELSE default

Put(f, k, v) == [x \in (DOMAIN f) \cup {k} |-> IF x = k THEN v ELSE f[x]]

\* the sum of the values of a map of numbers
RECURSIVE SumValues(_)
SumValues(f) ==
    IF DOMAIN f = {} THEN 0
    ELSE LET k == CHOOSE x \in DOMAIN f : TRUE
         IN f[k] + SumValues([x \in (DOMAIN f) \ {k} |-> f[x]])

-----------------------------------------------------------------------------
(* Collector builders *)

\* buildDistinctCardNamesList: the non-empty card names, first occurrences
RECURSIVE buildDistinctCardNamesList(_)
buildDistinctCardNamesList(lines) ==
    IF lines = <<>> THEN <<>>
    ELSE LET front == buildDistinctCardNamesList(SubSeq(lines, 1, Len(lines) - 1))
             name == lines[Len(lines)].cardName
         IN IF name = <<>> \/ \E k \in 1..Len(front) : front[k] = name
            THEN front
            ELSE Append(front, name)

\* a grouping by set code that keeps a collector number once per set
RECURSIVE buildCardNumbersBySetOnce(_)
buildCardNumbersBySetOnce(lines) ==
    IF lines = <<>> THEN EmptyMap
    ELSE LET front == buildCardNumbersBySetOnce(SubSeq(lines, 1, Len(lines) - 1))
             line == lines[Len(lines)]
             bucket == Get(front, line.cardSetCode, <<>>)
         IN IF /\ line.cardNumber # <<>> /\ line.cardSetCode # <<>>
               /\ \A k \in 1..Len(bucket) : bucket[k] # line.cardNumber
            THEN Put(front, line.cardSetCode, Append(bucket, line.cardNumber))
            ELSE front

\* buildDistinctCardNumbersBySetList: set code -> the numbers, in input order
RECURSIVE buildDistinctCardNumbersBySetList(_)
buildDistinctCardNumbersBySetList(lines) ==
    IF lines = <<>> THEN EmptyMap
    ELSE LET front == buildDistinctCardNumbersBySetList(SubSeq(lines, 1, Len(lines) - 1))
             line == lines[Len(lines)]
         IN IF line.cardNumber # <<>> /\ line.cardSetCode # <<>>
            THEN Put(front, line.cardSetCode,
                     Append(Get(front, line.cardSetCode, <<>>), line.cardNumber))
            ELSE front
-----------------------------------------------------------------------------
(* The batches of fetchCardDataFromScryfall *)

\* MAX_SCRYFALL_BATCH_SIZE of scryfall.ts, which is not part of the sources;
\* "Fetch in batches of 75"
MAX_SCRYFALL_BATCH_SIZE == 75

\* the arrays of fetchCardDataFromScryfall: heap is the arrays created so far,
\* batches the references pushed onto `batches`, currentBatch a reference,
\* idx the forEach index of the next card name, requests the arguments of the
\* calls of getMultipleCardData; before the function is called
NoFetch ==
    [heap |-> <<>>, batches |-> <<>>, currentBatch |-> 0, idx |-> 0,
     requests |-> <<>>]

\* const batches = []; let currentBatch = []; batches.push(currentBatch)
NoBatches ==
    [heap |-> << <<>> >>, batches |-> <<1>>, currentBatch |-> 1, idx |-> 1,
     requests |-> <<>>]

\* the forEach callback for one card name
pushCardName(st, cardName) ==
    LET next == IF Len(st.heap[st.currentBatch]) = MAX_SCRYFALL_BATCH_SIZE
                THEN [st EXCEPT !.heap = Append(@, <<>>),
                                !.batches = Append(@, st.currentBatch),
                                !.currentBatch = Len(st.heap) + 1]
                ELSE st
    IN [next EXCEPT !.heap[next.currentBatch] = Append(@, nameToId(cardName)),
                    !.idx = @ + 1]

\* batches.push(currentBatch) after the loop, then batches.map: each call of
\* getMultipleCardData gets the array (ref) with what it then holds (ids)
requestBatches(st) ==
    LET batches == Append(st.batches, st.currentBatch)
    IN [st EXCEPT !.batches = batches,
                  !.requests = [k \in 1..Len(batches) |->
                                   [ref |-> batches[k], ids |-> st.heap[batches[k]]]]]
-----------------------------------------------------------------------------
(* Card data and prices *)

\* "unknown": UNKNOWN_CARD of collection.ts, which is not part of the sources
UNKNOWN_CARD == <<"u", "n", "k", "n", "o", "w", "n">>

\* interface CardData, the fields the renderer reads; a price is Null or
\* Some(amount), the amount in hundredths of the currency unit
CardData(name, set, number, usd, eur, tix) ==
    [name |-> name, set |-> set, collector_number |-> number,
     prices |-> [usd |-> usd, eur |-> eur, tix |-> tix]]

\* getCardPrice: Null, or Some(price) in the preferred currency. A value of
\* cardDataById is Null (undefined) or Some(card data).
getCardPrice(cardName, cardDataById, stg) ==
    LET cardData == Get(cardDataById, nameToId(cardName), Null)
    IN IF cardData = Null \/ stg.hidePrices THEN Null
       ELSE IF stg.preferredCurrency = "eur" THEN cardData[1].prices.eur
       ELSE IF stg.preferredCurrency = "tix" THEN cardData[1].prices.tix
       ELSE cardData[1].prices.usd

-----------------------------------------------------------------------------
(* renderCollection: the found data is added to the parsed lines *)

\* "Card not found (<setCode>/<number>)"
cardNotFoundName(setCode, number) ==
    CARD_NOT_FOUND \o setCode \o <<"/">> \o number \o <<")">>

\* one call of the forEach callback of renderCollection on acc =
\* [raised, lines, cardDataByCardId]; reading a number of a set code that
\* cardDataBySetNameByCardNumber has no bucket for raises a TypeError
resolveLine(acc, line, bySetByNumber, counts) ==
    IF acc.raised THEN acc
    ELSE IF ~(line.lineType = "card" /\ line.cardNumber # <<>> /\ line.cardSetCode # <<>>)
    THEN [acc EXCEPT !.lines = Append(@, line)]
    ELSE IF line.cardSetCode \notin DOMAIN bySetByNumber
    THEN [acc EXCEPT !.raised = TRUE]
    ELSE LET cardData == Get(bySetByNumber[line.cardSetCode], line.cardNumber, Null)
             cardName == IF cardData = Null
                         THEN cardNotFoundName(line.cardSetCode, line.cardNumber)
                         ELSE cardData[1].name
             cardId == nameToId(cardName)
             globalCount == IF DOMAIN counts # {}
                            THEN Some(Get(counts, cardId, 0))
                            ELSE line.globalCount
         IN [acc EXCEPT
                !.lines = Append(@, [line EXCEPT !.cardName = cardName,
                                                 !.globalCount = globalCount]),
                !.cardDataByCardId = Put(@, cardId, cardData)]

RECURSIVE resolveCollection(_, _, _)
resolveCollection(lines, bySetByNumber, counts) ==
    IF lines = <<>>
    THEN [raised |-> FALSE, lines |-> <<>>, cardDataByCardId |-> EmptyMap]
    ELSE resolveLine(resolveCollection(SubSeq(lines, 1, Len(lines) - 1),
                                       bySetByNumber, counts),
                     lines[Len(lines)], bySetByNumber, counts)

-----------------------------------------------------------------------------
(* render *)

\* the parsedLines.forEach that groups the lines: the state after the first
\* n lines
RECURSIVE groupSections(_, _, _)
groupSections(lines, n, defaultSection) ==
    IF n = 0
    THEN [currentSection |-> defaultSection, sections |-> <<>>,
          linesBySection |-> EmptyMap]
    ELSE LET prev == groupSections(lines, n - 1, defaultSection)
             line == lines[n]
             sections == IF n = 1 /\ line.lineType # "section"
                         THEN Append(prev.sections, prev.currentSection)
                         ELSE prev.sections
         IN IF line.lineType = "section"
            THEN LET section == IF line.text # <<>> THEN line.text
                                ELSE DEFAULT_SECTION_NAME
                 IN [currentSection |-> section,
                     sections |-> Append(sections, section),
                     linesBySection |-> prev.linesBySection]
            ELSE [currentSection |-> prev.currentSection,
                  sections |-> sections,
                  linesBySection |->
                      Put(prev.linesBySection, prev.currentSection,
                          Append(Get(prev.linesBySection, prev.currentSection, <<>>),
                                 line))]

\* a faulty comparison: a line whose count equals the owned count registers
\* a deficit of 0
lineDeficitAtLeast(line) ==
    IF line.globalCount # Null /\ line.cardCount >= line.globalCount[1]
    THEN Some(line.cardCount - line.globalCount[1])
    ELSE Null

\* what a card line adds to the missing-card maps: Null, or Some(deficit)
lineDeficit(line) ==
    LET lineCardCount == line.cardCount
        lineGlobalCount == IF line.globalCount = Null THEN -1 ELSE line.globalCount[1]
    IN IF lineGlobalCount # -1 /\ lineCardCount > lineGlobalCount
       THEN Some(lineCardCount - lineGlobalCount)
       ELSE Null

\* a per-line body that takes a count of 0 for the default of one copy
renderLineZeroAsOne(acc, section, line, cardDataById, stg) ==
    IF line.lineType # "card" THEN acc
    ELSE LET counted == [line EXCEPT !.cardCount = IF @ = 0 THEN 1 ELSE @]
             cardPrice == IF counted.cardName # <<>>
                          THEN getCardPrice(counted.cardName, cardDataById, stg)
                          ELSE Null
             deficit == lineDeficit(counted)
             cardId == nameToId(counted.cardName)
             totalPrice == IF cardPrice = Null THEN 0
                           ELSE counted.cardCount * cardPrice[1]
         IN [acc EXCEPT
                !.missingCardCounts =
                    IF deficit = Null THEN @
                    ELSE Put(@, cardId, Get(@, cardId, 0) + deficit[1]),
                !.sectionMissingCardCounts =
                    IF deficit = Null THEN @
                    ELSE Put(@, cardId, Get(@, cardId, 0) + deficit[1]),
                !.sectionTotalCost[section] = @ + totalPrice,
                !.sectionTotalCounts[section] = @ + counted.cardCount]

\* the body of linesBySection[section].forEach for one line, on acc =
\* [sectionTotalCounts, sectionTotalCost, missingCardCounts,
\*  sectionMissingCardCounts, ...]
renderLine(acc, section, line, cardDataById, stg) ==
    IF line.lineType # "card" THEN acc
    ELSE LET cardPrice == IF line.cardName # <<>>
                          THEN getCardPrice(line.cardName, cardDataById, stg)
                          ELSE Null
             deficit == lineDeficit(line)
             cardId == nameToId(line.cardName)
             totalPrice == IF cardPrice = Null THEN 0
                           ELSE line.cardCount * cardPrice[1]
         IN [acc EXCEPT
                !.missingCardCounts =
                    IF deficit = Null THEN @
                    ELSE Put(@, cardId, Get(@, cardId, 0) + deficit[1]),
                !.sectionMissingCardCounts =
                    IF deficit = Null THEN @
                    ELSE Put(@, cardId, Get(@, cardId, 0) + deficit[1]),
                !.sectionTotalCost[section] = @ + totalPrice,
                !.sectionTotalCounts[section] = @ + line.cardCount]

RECURSIVE renderLines(_, _, _, _, _)
renderLines(acc, section, lines, cardDataById, stg) ==
    IF lines = <<>> THEN acc
    ELSE renderLines(renderLine(acc, section, Head(lines), cardDataById, stg),
                     section, Tail(lines), cardDataById, stg)

\* the body of sections.forEach for one section; linesBySection[section] is
\* undefined for a section that got no line, and its forEach raises
renderSection(acc, section, linesBySection, cardDataById, stg) ==
    IF acc.raised # "" THEN acc
    ELSE IF section \notin DOMAIN linesBySection
    THEN [acc EXCEPT !.raised = "section"]
    ELSE LET done == renderLines([acc EXCEPT !.sectionMissingCardCounts = EmptyMap],
                                 section, linesBySection[section], cardDataById, stg)
         IN [done EXCEPT
                !.sectionResults =
                    Append(@, [section |-> section,
                               missing |-> done.sectionMissingCardCounts,
                               totalCount |-> done.sectionTotalCounts[section]])]

RECURSIVE renderSections(_, _, _, _, _)
renderSections(acc, sections, linesBySection, cardDataById, stg) ==
    IF sections = <<>> THEN acc
    ELSE renderSections(
             renderSection(acc, Head(sections), linesBySection, cardDataById, stg),
             Tail(sections), linesBySection, cardDataById, stg)

\* a buylist that lists only the missing cards that have card data
buildBuylistKnownOnly(missing, cardDataById, stg) ==
    LET known == {cardId \in DOMAIN missing : Get(cardDataById, cardId, Null) # Null}
    IN IF known # {} /\ stg.showBuylist
       THEN LET cost(cardId) ==
                    LET price == getCardPrice(cardDataById[cardId][1].name, cardDataById, stg)
                    IN IF price = Null THEN 0 ELSE price[1] * missing[cardId]
                entries == [cardId \in known |->
                               [quantity |-> missing[cardId],
                                label |-> cardDataById[cardId][1].name,
                                cost |-> cost(cardId)]]
            IN Some([entries |-> entries,
                     totalCount |-> SumValues(missing),
                     totalCost |-> SumValues([c \in known |-> entries[c].cost])])
       ELSE Null

\* the buylist: Null when it is not shown, else one entry per missing card id
buildBuylist(missing, cardDataById, stg) ==
    IF DOMAIN missing # {} /\ stg.showBuylist
    THEN LET entry(cardId) ==
                 LET cardInfo == Get(cardDataById, cardId, Null)
                     price == IF cardInfo = Null THEN Null
                              ELSE getCardPrice(cardInfo[1].name, cardDataById, stg)
                 IN [quantity |-> missing[cardId],
                     label |-> IF cardInfo # Null THEN cardInfo[1].name
                               ELSE IF cardId # <<>> THEN cardId ELSE UNKNOWN_CARD,
                     cost |-> IF price = Null THEN 0 ELSE price[1] * missing[cardId]]
             entries == [cardId \in DOMAIN missing |-> entry(cardId)]
         IN Some([entries |-> entries,
                  totalCount |-> SumValues(missing),
                  totalCost |-> SumValues([c \in DOMAIN entries |-> entries[c].cost])])
    ELSE Null

\* the "Sync Collection" link: cardData.name raises for a card id whose data
\* is undefined; else one set:number:count entry per card id
syncRaises(cardDataById, coll, ws) ==
    /\ coll /\ ws
    /\ \E cardId \in DOMAIN cardDataById : cardDataById[cardId] = Null

syncCards(cardDataById, lines) ==
    [cardId \in DOMAIN cardDataById |->
        [set |-> cardDataById[cardId][1].set,
         number |-> cardDataById[cardId][1].collector_number,
         count |-> Cardinality({k \in 1..Len(lines) :
                                    /\ lines[k].lineType = "card"
                                    /\ lines[k].cardName = cardDataById[cardId][1].name})]]

\* what render has computed before anything ran
NoOutput ==
    [sections |-> <<>>, linesBySection |-> EmptyMap,
     sectionTotalCounts |-> EmptyMap, sectionTotalCost |-> EmptyMap,
     missingCardCounts |-> EmptyMap, sectionMissingCardCounts |-> EmptyMap,
     sectionResults |-> <<>>, buylist |-> Null, syncCards |-> Null, raised |-> ""]

\* render: the sections, totals, missing cards, buylist and sync link; raised
\* names the place of the TypeError that ended it, "" when it returned
render(cardDataById, stg, ws, lines, coll) ==
    LET grouped == groupSections(lines, Len(lines),
                                 IF coll THEN COLLECTION_SECTION_NAME
                                 ELSE DEFAULT_SECTION_NAME)
        names == {grouped.sections[k] : k \in 1..Len(grouped.sections)}
        start == [NoOutput EXCEPT
                     !.sections = grouped.sections,
                     !.linesBySection = grouped.linesBySection,
                     !.sectionTotalCounts = [s \in names |-> 0],
                     !.sectionTotalCost = [s \in names |-> 0]]
        done == renderSections(start, grouped.sections, grouped.linesBySection,
                               cardDataById, stg)
    IN IF done.raised # "" THEN done
       ELSE LET listed == [done EXCEPT
                              !.buylist = buildBuylist(done.missingCardCounts,
                                                       cardDataById, stg)]
            IN IF syncRaises(cardDataById, coll, ws)
               THEN [listed EXCEPT !.raised = "sync"]
               ELSE IF coll /\ ws
               THEN [listed EXCEPT !.syncCards = Some(syncCards(cardDataById, lines))]
               ELSE listed
-----------------------------------------------------------------------------
(* The inputs: the text of the code block, the ledger, the settings and the *)
(* card data the external lookup can return                                  *)

\* the most lines of a code block
MaxLines == 3

\* the most characters of a line of LineSpec
MaxLen == 5

\* all sequences over S of length 1..n
RECURSIVE SeqsUpTo(_, _)
SeqsUpTo(S, n) ==
    IF n = 0 THEN {}
    ELSE LET shorter == SeqsUpTo(S, n - 1)
         IN {<<x>> : x \in S} \cup shorter
            \cup {Append(q, x) : q \in {r \in shorter : Len(r) = n - 1}, x \in S}

\* lines of a decklist: two headers (one is the default section name), cards
\* with counts 2 and 0, a set directive, a card number and a blank line
DeckLines ==
    { <<"A", ":">>, DEFAULT_SECTION_NAME,
      <<"2", " ", "N">>, <<"0", " ", "s">>,
      <<"#", " ", "s", "e", "t", "=", "w">>, <<"5">>, <<>> }

\* lines for the carried set code: directives with one, two, an empty and no
\* set value, card numbers, and one line of every other kind
ParseLinesVocabulary ==
    { <<"#", " ", "s", "e", "t", "=", "w">>,
      <<"#", " ", "a", "=", "b", ",", " ", "s", "e", "t", " ", "=", " ", "k">>,
      <<"#", " ", "s", "e", "t", "=">>,
      <<"#", " ", "s", "e", "t", "=", "w", "=", "k">>,
      <<"#", "s", "e", "t", "=", "z">>,
      <<"5">>, <<"1", "2">>,
      <<"A", ":">>, <<"2", " ", "n">>, <<" ">> }

\* the characters of the single lines of LineSpec
LineAlphabet == {"1", "2", " ", "#", "a", "B", "[", "|"}

Ledgers ==
    { EmptyMap,
      (<<"n">> :> 1),
      (<<"n">> :> 2) @@ (<<"s">> :> 3) }

Currencies == {"usd", "tix"}

\* the settings render reads; the currency is read only when prices are shown
SettingsChoices ==
    { st \in [showBuylist : BOOLEAN, hidePrices : BOOLEAN,
              preferredCurrency : Currencies \cup {"eur"}] :
        st.hidePrices <=> st.preferredCurrency = "eur" }

\* the cards the lookup by name can find, by card id
CatalogByName ==
    (<<"n">> :> CardData(<<"N">>, <<"w">>, <<"5">>, Some(150), Some(120), Null))
    @@ (<<"s">> :> CardData(<<"S">>, <<"w">>, <<"6">>, Null, Null, Null))

\* the cards the lookup by set code and collector number can find
CatalogBySet == (<<"w">> :> (<<"5">> :> CatalogByName[<<"n">>]))

-----------------------------------------------------------------------------
(* The renderer as a state machine *)

\* render reads workspace only in collection mode
InitWith(lineSets, modes, settingsSet) ==
    /\ rawLines \in lineSets
    /\ cardCounts \in Ledgers
    /\ isCollection \in modes
    /\ settings \in settingsSet
    /\ workspace \in (IF isCollection THEN BOOLEAN ELSE {FALSE})
    /\ pc = "start"
    /\ parsedLines = <<>>
    /\ fetched = EmptyMap
    /\ cardDataByCardId = EmptyMap
    /\ out = NoOutput
    /\ query = <<>>
    /\ scryfall = NoFetch

Init == InitWith(SeqsUpTo(DeckLines, MaxLines), BOOLEAN, SettingsChoices)

\* renderDecklist / renderCollection up to the await of the dataFetcher:
\* parseLines, then the list the dataFetcher is called with
ParseLines ==
    /\ pc = "start"
    /\ parsedLines' = parseLines(rawLines, cardCounts)
    /\ query' = IF isCollection
                THEN buildDistinctCardNumbersBySetList(parsedLines')
                ELSE buildDistinctCardNamesList(parsedLines')
    /\ pc' = "parsed"
    /\ UNCHANGED <<rawLines, cardCounts, isCollection, settings, workspace,
                   fetched, cardDataByCardId, out, scryfall>>

\* the rest of either renderer once the card data is there
Finish(lines, cardDataById) ==
    /\ parsedLines' = lines
    /\ cardDataByCardId' = cardDataById
    /\ out' = render(cardDataById, settings, workspace, lines, isCollection)
    /\ pc' = IF out'.raised = "" THEN "rendered" ELSE "raised"

\* renderDecklist after the await: the dataFetcher found some of the names
\* (none when it threw), then render
DecklistFetched ==
    /\ pc = "parsed" /\ ~isCollection
    /\ LET names == query
           ids == {nameToId(names[k]) : k \in 1..Len(names)} \cap DOMAIN CatalogByName
       IN \E found \in SUBSET ids :
            /\ fetched' = [id \in found |-> Some(CatalogByName[id])]
            /\ Finish(parsedLines, fetched')
    /\ UNCHANGED <<rawLines, cardCounts, isCollection, settings, workspace,
                   query, scryfall>>

\* renderCollection after the await, lines 349-376
FinishCollection ==
    LET resolved == resolveCollection(parsedLines, fetched', cardCounts)
    IN IF resolved.raised
       THEN /\ pc' = "raised"
            /\ out' = [NoOutput EXCEPT !.raised = "resolve"]
            /\ UNCHANGED <<parsedLines, cardDataByCardId>>
       ELSE Finish(resolved.lines, resolved.cardDataByCardId)

\* renderCollection after the await: the dataFetcher returned one bucket per
\* requested set code, holding the numbers it found
CollectionFetched ==
    /\ pc = "parsed" /\ isCollection
    /\ LET bySet == query
           known(set) == {bySet[set][k] : k \in 1..Len(bySet[set])}
                             \cap DOMAIN Get(CatalogBySet, set, EmptyMap)
       IN \E found \in [DOMAIN bySet -> BOOLEAN] :
            /\ fetched' = [set \in DOMAIN bySet |->
                              [n \in (IF found[set] THEN known(set) ELSE {}) |->
                                  Some(CatalogBySet[set][n])]]
            /\ FinishCollection
    /\ UNCHANGED <<rawLines, cardCounts, isCollection, settings, workspace,
                   query, scryfall>>

\* renderCollection after the await: the dataFetcher threw, the catch leaves
\* cardDataBySetNameByCardNumber = {}
CollectionFetchFailed ==
    /\ pc = "parsed" /\ isCollection
    /\ fetched' = EmptyMap
    /\ FinishCollection
    /\ UNCHANGED <<rawLines, cardCounts, isCollection, settings, workspace,
                   query, scryfall>>

Next == ParseLines \/ DecklistFetched \/ CollectionFetched \/ CollectionFetchFailed

Spec == Init /\ [][Next]_vars

\* the settings parseLines runs under: it reads none of them
ParseSettings ==
    {[showBuylist |-> TRUE, hidePrices |-> FALSE, preferredCurrency |-> "usd"]}

\* parseLines and the collector builders alone, on lists of lines that set
\* and use the carried set code
ParseInit == InitWith(SeqsUpTo(ParseLinesVocabulary, MaxLines), BOOLEAN, ParseSettings)

ParseSpec == ParseInit /\ [][ParseLines]_vars

\* parseLines alone, on every single line over LineAlphabet
LineInit ==
    InitWith({<<l>> : l \in SeqsUpTo(LineAlphabet, MaxLen)}, {FALSE}, ParseSettings)

LineSpec == LineInit /\ [][ParseLines]_vars

\* the most characters after the set-code annotation of a line of AnnotSpec
MaxSuffix == 3

\* a card entry up to its annotation, and a "(SETCODE) NUMBER" annotation
AnnotPrefix == <<"4", " ", "a", " ">>

Annotation == <<"(", "a", "b", "c", ")", " ", "1">>

\* what follows the annotation: nothing, more text, a comment
SuffixAlphabet == {" ", "x", "2", COMMENT_DELIMITER}

AnnotatedLines ==
    {AnnotPrefix \o Annotation \o sfx :
        sfx \in {<<>>} \cup SeqsUpTo(SuffixAlphabet, MaxSuffix)}

\* parseLines alone, on single card entries with a set-code annotation
AnnotInit == InitWith({<<l>> : l \in AnnotatedLines}, {FALSE}, ParseSettings)

AnnotSpec == AnnotInit /\ [][ParseLines]_vars

\* the most distinct card names of a decklist of BatchSpec
MaxNames == 152

\* the decimal digits of k
RECURSIVE ToDigits(_)
ToDigits(k) ==
    IF k < 10 THEN <<DigitSeq[k + 1]>>
    ELSE Append(ToDigits(k \div 10), DigitSeq[(k % 10) + 1])

\* a decklist of n card entries with n distinct names: "1 1x", "1 2x", ...
DecklistOf(n) == [k \in 1..n |-> <<"1", " ">> \o ToDigits(k) \o <<"x">>]

\* fetchCardDataFromScryfall alone: renderDecklist at the call of the default
\* dataFetcher, for a decklist of up to MaxNames card entries; no line is a
\* set directive, so each record is parseLine of its line, and the names are
\* distinct, so the distinct card names are the names in input order
BatchInit ==
    /\ rawLines \in {DecklistOf(n) : n \in 0..MaxNames}
    /\ cardCounts = EmptyMap
    /\ isCollection = FALSE
    /\ settings \in ParseSettings
    /\ workspace = FALSE
    /\ pc = "parsed"
    /\ parsedLines = [k \in 1..Len(rawLines) |->
                         parseLine(rawLines[k], <<>>, cardCounts).line]
    /\ query = [k \in 1..Len(rawLines) |-> parsedLines[k].cardName]
    /\ fetched = EmptyMap
    /\ cardDataByCardId = EmptyMap
    /\ out = NoOutput
    /\ scryfall = NoFetch

\* dataFetcher(distinctCardNames): fetchCardDataFromScryfall is entered
FetchCardDataFromScryfall ==
    /\ pc = "parsed"
    /\ ~isCollection
    /\ scryfall' = NoBatches
    /\ pc' = "batching"
    /\ UNCHANGED <<rawLines, cardCounts, isCollection, settings, workspace,
                   parsedLines, fetched, cardDataByCardId, out, query>>

\* one iteration of distinctCardNames.forEach
PushCardName ==
    /\ pc = "batching"
    /\ scryfall.idx <= Len(query)
    /\ scryfall' = pushCardName(scryfall, query[scryfall.idx])
    /\ UNCHANGED <<rawLines, cardCounts, isCollection, settings, workspace, pc,
                   parsedLines, fetched, cardDataByCardId, out, query>>

\* after the loop: the last push and Promise.all(batches.map(...))
RequestBatches ==
    /\ pc = "batching"
    /\ scryfall.idx > Len(query)
    /\ scryfall' = requestBatches(scryfall)
    /\ pc' = "requested"
    /\ UNCHANGED <<rawLines, cardCounts, isCollection, settings, workspace,
                   parsedLines, fetched, cardDataByCardId, out, query>>

BatchNext == FetchCardDataFromScryfall \/ PushCardName \/ RequestBatches

BatchSpec == BatchInit /\ [][BatchNext]_vars
-----------------------------------------------------------------------------
(* Properties of parseLines *)

\* rec is the record of the raw line: its kind is the shape of the line and
\* it carries the text of the line
IsRecordOf(rec, line, counts) ==
    \/ rec.lineType = "blank" /\ AllIn(line, 1, Len(line), Whitespace)
    \/ rec.lineType = "section" /\ rec.text = line
    \/ rec.lineType = "comment" /\ rec.comments = <<line>>
    \/ IsCardByNumber(rec) /\ rec.text = line
    \/ rec.lineType = "error" /\ rec.errors = <<INVALID_LINE \o line>>
    \/ IsCard(rec) /\ rec = cardEntry(line, counts)

\* C1: parseLines returns one record per raw line, in input order: the output
\* is as long as the input and record i is the record of raw line i; every
\* list of lines is parsed (no line aborts the parse).
C1_OneLinePerInputLine ==
    pc = "parsed" =>
        /\ Len(parsedLines) = Len(rawLines)
        /\ \A i \in 1..Len(rawLines) :
               IsRecordOf(parsedLines[i], rawLines[i], cardCounts)

\* a parsed list of three lines with a blank line, then an error line
C1_Witness ==
    /\ pc = "parsed"
    /\ Len(rawLines) = 3
    /\ parsedLines[1].lineType = "blank"
    /\ parsedLines[2].lineType = "error"
    /\ parsedLines[3].lineType = "card"

\* raw line j is a comment line that yields a non-empty set code
IsSetDirective(line) == startsWithComment(line) /\ extractSetCode(line) # <<>>

\* the set code a card number on raw line i has to carry
ExpectedSetCode(lines, i) ==
    IF \A j \in 1..(i - 1) : ~IsSetDirective(lines[j]) THEN <<>>
    ELSE LET j == CHOOSE k \in 1..(i - 1) :
                    /\ IsSetDirective(lines[k])
                    /\ \A m \in (k + 1)..(i - 1) : ~IsSetDirective(lines[m])
         IN extractSetCode(lines[j])

\* C8: the set code of each card-by-number line is the value of the most
\* recent preceding comment line that yielded a non-empty set code, and the
\* empty string when there is none (each parseLines call starts from the
\* empty string); no other line changes the carried set code.
C8_SetCodeCarried ==
    pc = "parsed" =>
        \A i \in 1..Len(parsedLines) :
            IsCardByNumber(parsedLines[i]) =>
                parsedLines[i].cardSetCode = ExpectedSetCode(rawLines, i)

\* a card number that carries a set code across a comment line that yields
\* no set code
C8_Witness ==
    /\ pc = "parsed"
    /\ Len(rawLines) = 3
    /\ IsSetDirective(rawLines[1])
    /\ parsedLines[2].lineType = "comment" /\ ~IsSetDirective(rawLines[2])
    /\ IsCardByNumber(parsedLines[3])
    /\ parsedLines[3].cardSetCode # <<>>

\* C6: every non-blank line whose first character is neither a digit nor the
\* comment delimiter is a section header whose text is the raw line.
C6_HeaderForEveryOtherFirstCharacter ==
    pc = "parsed" =>
        \A i \in 1..Len(rawLines) :
            LET line == rawLines[i]
            IN (/\ Len(line) > 0
                /\ ~AllIn(line, 1, Len(line), Whitespace)
                /\ line[1] \notin Digits \cup {COMMENT_DELIMITER})
               => (parsedLines[i].lineType = "section" /\ parsedLines[i].text = line)

\* C7: a digit-leading line is a card-by-number reference only when it
\* consists solely of digits; with any other content it is a card entry (a
\* Card or an Error).
C7_NumberOnlyWhenAllDigits ==
    pc = "parsed" =>
        \A i \in 1..Len(rawLines) :
            LET line == rawLines[i]
            IN (Len(line) > 0 /\ line[1] \in Digits) =>
                /\ IsCardByNumber(parsedLines[i]) <=> AllIn(line, 1, Len(line), Digits)
                /\ ~AllIn(line, 1, Len(line), Digits)
                   => (IsCard(parsedLines[i]) \/ parsedLines[i].lineType = "error")

\* the line is <integer><whitespace><name> with optional #-fragments, a
\* non-empty name, and reaches the card-entry step
IsCardEntryForm(line) ==
    /\ Len(line) > 0
    /\ line[1] \in Digits
    /\ RunEnd(line, 1) < Len(line)
    /\ line[RunEnd(line, 1) + 1] \in Whitespace
    /\ ~numberRE(line)
    /\ trim(SubSeq(split(line, COMMENT_DELIMITER)[1],
                   RunEnd(line, 1) + 1, Len(split(line, COMMENT_DELIMITER)[1]))) # <<>>

\* C9: a card-entry line yields a Card with count = the integer, name = the
\* text between the count and the first '#' trimmed, comments = the fragments
\* after each '#', and no errors.
C9_CardEntryFields ==
    pc = "parsed" =>
        \A i \in 1..Len(rawLines) :
            LET line == rawLines[i]
                first == split(line, COMMENT_DELIMITER)[1]
                j == RunEnd(line, 1)
            IN IsCardEntryForm(line) =>
                /\ IsCard(parsedLines[i])
                /\ parsedLines[i].cardCount = parseInt(SubSeq(line, 1, j))
                /\ parsedLines[i].cardName = trim(SubSeq(first, j + 1, Len(first)))
                /\ parsedLines[i].comments = Tail(split(line, COMMENT_DELIMITER))
                /\ parsedLines[i].errors = <<>>
-----------------------------------------------------------------------------
(* Properties of the reconciliation (renderCollection's resolution, render) *)

\* max(0, count - owned) of a card line, owned read from the ledger; 0 for a
\* line that has no owned count (globalCount = null)
ExpectedDeficit(line) ==
    LET owned == Get(cardCounts, nameToId(line.cardName), 0)
    IN IF line.globalCount = Null \/ line.cardCount <= owned THEN 0
       ELSE line.cardCount - owned

\* the sum of the expected deficits of the card lines of lines with this id
RECURSIVE TotalDeficit(_, _)
TotalDeficit(lines, cardId) ==
    IF lines = <<>> THEN 0
    ELSE TotalDeficit(Tail(lines), cardId)
         + (IF Head(lines).lineType = "card" /\ nameToId(Head(lines).cardName) = cardId
            THEN ExpectedDeficit(Head(lines))
            ELSE 0)

\* card id -> total deficit, for the ids with a positive total
ExpectedMissing(lines) ==
    LET ids == {nameToId(lines[k].cardName) :
                    k \in {m \in 1..Len(lines) : lines[m].lineType = "card"}}
    IN [cardId \in {c \in ids : TotalDeficit(lines, c) > 0} |->
            TotalDeficit(lines, cardId)]

\* C2: when render returns, the global missing-card mapping maps each card id
\* to the sum over all card lines with that id of max(0, count - owned): each
\* line's deficit is added exactly once.
C2_GlobalMissingIsSumOfDeficits ==
    pc = "rendered" => out.missingCardCounts = ExpectedMissing(parsedLines)

\* C3: render's pass over the sections raises for no sequence of parsed
\* lines, whatever the shape of the sections.
C3_SectionsNeverRaise == out.raised # "section"

\* C4: with an empty ledger every card line has globalCount = null, no
\* deficit is registered (the global and the section missing-card mappings
\* are empty) and no buylist is produced, whatever the counts and settings.
C4_EmptyLedgerNoDeficits ==
    DOMAIN cardCounts = {} =>
        /\ \A i \in 1..Len(parsedLines) :
               parsedLines[i].lineType = "card" => parsedLines[i].globalCount = Null
        /\ out.missingCardCounts = EmptyMap
        /\ \A k \in 1..Len(out.sectionResults) :
               out.sectionResults[k].missing = EmptyMap
        /\ out.buylist = Null

\* a render that returned under an empty ledger with showBuylist set and a
\* card line of count 2
C4_Witness ==
    /\ pc = "rendered"
    /\ DOMAIN cardCounts = {}
    /\ settings.showBuylist
    /\ \E i \in 1..Len(parsedLines) :
           IsCard(parsedLines[i]) /\ parsedLines[i].cardCount = 2
    /\ out.sectionResults # <<>>

\* C5: with a non-empty ledger every Card line has owned = the ledger value
\* of its card id (0 when absent), and the missing mapping of every section
\* render has gone through maps each card id to the sum of max(0, count -
\* owned) over the section's card lines with that id, with no entry for an
\* id whose lines all have count <= owned.
C5_OwnedAndSectionMissing ==
    DOMAIN cardCounts # {} =>
        /\ \A i \in 1..Len(parsedLines) :
               IsCard(parsedLines[i]) =>
                   parsedLines[i].globalCount =
                       Some(Get(cardCounts, nameToId(parsedLines[i].cardName), 0))
        /\ \A k \in 1..Len(out.sectionResults) :
               out.sectionResults[k].missing =
                   ExpectedMissing(out.linesBySection[out.sectionResults[k].section])

\* a render that returned with a section that has a missing card and, among
\* its lines, a Card line whose count is the owned count
C5_Witness ==
    /\ pc = "rendered"
    /\ DOMAIN cardCounts # {}
    /\ \E k \in 1..Len(out.sectionResults) :
           LET lines == out.linesBySection[out.sectionResults[k].section]
           IN /\ out.sectionResults[k].missing # EmptyMap
              /\ \E i \in 1..Len(lines) :
                     /\ IsCard(lines[i])
                     /\ lines[i].cardCount > 0
                     /\ lines[i].globalCount = Some(lines[i].cardCount)

\* the card-by-number line has a set code and the returned metadata has no
\* entry for (set code, number)
IsLookupMiss(line) ==
    /\ IsCardByNumber(line)
    /\ line.cardSetCode # <<>>
    /\ \/ line.cardSetCode \notin DOMAIN fetched
       \/ line.cardNumber \notin DOMAIN fetched[line.cardSetCode]

\* C10: in collection mode a card-by-number line whose (set code, number)
\* has no metadata gets the name "Card not found (<setCode>/<number>)", has
\* no price and is counted in its section, and rendering returns.
C10_LookupMissIsPlaceholder ==
    (isCollection /\ pc \in {"rendered", "raised"}) =>
        \A i \in 1..Len(parsedLines) :
            IsLookupMiss(parsedLines[i]) =>
                /\ pc = "rendered"
                /\ parsedLines[i].cardName =
                       cardNotFoundName(parsedLines[i].cardSetCode,
                                        parsedLines[i].cardNumber)
                /\ getCardPrice(parsedLines[i].cardName, cardDataByCardId, settings)
                       = Null
                /\ \E s \in DOMAIN out.linesBySection :
                       /\ \E k \in 1..Len(out.linesBySection[s]) :
                              out.linesBySection[s][k] = parsedLines[i]
                       /\ out.sectionTotalCounts[s] >= parsedLines[i].cardCount
\* the sum of cardCount over the card lines of lines
RECURSIVE TotalCount(_)
TotalCount(lines) ==
    IF lines = <<>> THEN 0
    ELSE TotalCount(Tail(lines))
         + (IF Head(lines).lineType = "card" THEN Head(lines).cardCount ELSE 0)

\* the name of the section raw line i belongs to: the text of the nearest
\* preceding header, the mode's default name when there is none
SectionOf(lines, i, defaultSection) ==
    IF \A j \in 1..(i - 1) : lines[j].lineType # "section" THEN defaultSection
    ELSE lines[CHOOSE j \in 1..(i - 1) :
                   /\ lines[j].lineType = "section"
                   /\ \A m \in (j + 1)..(i - 1) : lines[m].lineType # "section"].text

\* the lines that belong to section s, in input order
LinesOfSection(lines, s, defaultSection) ==
    LET idx == {i \in 1..Len(lines) :
                    /\ lines[i].lineType # "section"
                    /\ SectionOf(lines, i, defaultSection) = s}
        RECURSIVE pick(_)
        pick(n) == IF n = 0 THEN <<>>
                   ELSE IF n \in idx THEN Append(pick(n - 1), lines[n])
                   ELSE pick(n - 1)
    IN pick(Len(lines))

\* C11: when render returns, each section's total count is the sum of count
\* over the card lines whose nearest preceding header has the section's name
\* (the default name when none precedes them): headers are not content and
\* every other line is in exactly one bucket and counted exactly once.
C11_SectionTotalIsSumOfCounts ==
    pc = "rendered" =>
        LET defaultSection == IF isCollection THEN COLLECTION_SECTION_NAME
                              ELSE DEFAULT_SECTION_NAME
        IN \A s \in DOMAIN out.sectionTotalCounts :
               /\ out.linesBySection[s] = LinesOfSection(parsedLines, s, defaultSection)
               /\ out.sectionTotalCounts[s] = TotalCount(out.linesBySection[s])
\* the card ids of the global missing-card mapping that have card data
WithMetadata(missing, cardDataById) ==
    {cardId \in DOMAIN missing : Get(cardDataById, cardId, Null) # Null}

\* quantity times unit price, summed over the missing cards with a price
ExpectedBuylistCost(missing, cardDataById, stg) ==
    LET unit(cardId) == getCardPrice(cardDataById[cardId][1].name, cardDataById, stg)
    IN SumValues([cardId \in WithMetadata(missing, cardDataById) |->
                     IF unit(cardId) = Null THEN 0
                     ELSE missing[cardId] * unit(cardId)[1]])

IsZeroCountCard(line) == line.lineType = "card" /\ line.cardCount = 0

NotZeroCountCard(line) == ~IsZeroCountCard(line)

\* the totals and missing cards of the same sections without their card lines
\* of count 0
WithoutZeroCountCards(o, cardDataById, stg) ==
    LET kept == [s \in DOMAIN o.linesBySection |->
                    SelectSeq(o.linesBySection[s], NotZeroCountCard)]
        start == [NoOutput EXCEPT
                     !.sections = o.sections,
                     !.linesBySection = kept,
                     !.sectionTotalCounts = [s \in DOMAIN o.sectionTotalCounts |-> 0],
                     !.sectionTotalCost = [s \in DOMAIN o.sectionTotalCost |-> 0]]
    IN renderSections(start, o.sections, kept, cardDataById, stg)

NumbersOfSet(lines, s) ==
    LET OfSet(l) == IsCardByNumber(l) /\ l.cardSetCode = s
        ofSet == SelectSeq(lines, OfSet)
    IN [k \in 1..Len(ofSet) |-> ofSet[k].cardNumber]

\* the non-empty set codes of the card-by-number lines
SetCodesOfNumbers(lines) ==
    {lines[k].cardSetCode : k \in {j \in 1..Len(lines) : IsCardByNumber(lines[j])}}
        \ {<<>>}

\* C14: buildDistinctCardNumbersBySetList has, for each non-empty set code,
\* the collector numbers of exactly the card-by-number lines of that set code,
\* in input order and with duplicates; a card-by-number line with an empty
\* set code is in no bucket and no other set code is a key.
C14_NumbersBySetInOrder ==
    (pc = "parsed" /\ isCollection) =>
        /\ DOMAIN query = SetCodesOfNumbers(parsedLines)
        /\ \A s \in DOMAIN query : query[s] = NumbersOfSet(parsedLines, s)

\* a card-by-number line with no set code before a set directive, and a
\* bucket for the card-by-number line after it
C14_Witness ==
    /\ pc = "parsed"
    /\ isCollection
    /\ \E k \in 1..Len(parsedLines) :
           IsCardByNumber(parsedLines[k]) /\ parsedLines[k].cardSetCode = <<>>
    /\ \E s \in DOMAIN query : Len(query[s]) > 0
\* s has a "(SETCODE) NUMBER" annotation somewhere
HasAnnotation(s) == \E p \in 1..Len(s) : setCodesAt(s, p)

\* C15: for a card-entry line with an embedded "(SETCODE) NUMBER" annotation,
\* parseLines yields a card whose name does not contain the annotation,
\* whether the annotation ends the line, is followed by more text, or is
\* followed by a '#' comment.
C15_AnnotationRemovedFromName ==
    pc = "parsed" =>
        \A i \in 1..Len(rawLines) :
            lineWithSetCodes(rawLines[i]) =>
                /\ IsCard(parsedLines[i])
                /\ ~HasAnnotation(parsedLines[i].cardName)
\* the number of requests whose batch holds cardId
RequestsWith(cardId) ==
    LET requests == scryfall.requests
    IN Cardinality({k \in 1..Len(requests) :
                       \E j \in 1..Len(requests[k].ids) : requests[k].ids[j] = cardId})

\* C16: the batches fetchCardDataFromScryfall passes to getMultipleCardData
\* have at most MAX_SCRYFALL_BATCH_SIZE ids each and partition the ids of the
\* distinct card names: every id is in exactly one requested batch and no
\* batch is requested more than once, for 0, fewer than 75, 75 and more than
\* 75 names.
C16_BatchesPartitionIds ==
    pc = "requested" =>
        LET requests == scryfall.requests
        IN /\ \A k \in 1..Len(requests) :
                  Len(requests[k].ids) <= MAX_SCRYFALL_BATCH_SIZE
           /\ \A i \in 1..Len(query) : RequestsWith(nameToId(query[i])) = 1
           /\ \A k \in 1..Len(requests) : \A j \in 1..Len(requests) :
                  requests[k].ref = requests[j].ref => k = j

====
